---- MODULE Spec2Model ----
(***************************************************************************)
(* Token estimation of src/anthropic/token.rs.                             *)
(*                                                                         *)
(*   is_east_asian_char(c)  range test on one Unicode scalar value         *)
(*   count_tokens(text)     sum of 7 / 2 per character, then (n + 3) / 6   *)
(*                                                                         *)
(* Characters are modelled by their code point (a natural number), a text  *)
(* by the sequence of its scalar values, as str::chars() yields them.      *)
(*                                                                         *)
(* Three specifications share the module:                                  *)
(*   Spec          a caller grows a text one character at a time and       *)
(*                 calls count_tokens on it after every append;            *)
(*   SpecClassify  is_east_asian_char applied to every Unicode scalar      *)
(*                 value;                                                  *)
(*   SpecConc      several count_tokens calls whose per-character          *)
(*                 iteration steps interleave.                             *)
(***************************************************************************)
EXTENDS Integers, Sequences, FiniteSets, TLC

VARIABLES
    text,        \* Spec: the caller's input, a sequence of code points
    result,      \* Spec: the value count_tokens returned for text
    ch,          \* SpecClassify: the argument of is_east_asian_char
    east_asian,  \* SpecClassify: the value it returned
    cpc,         \* SpecClassify: "call" before the call, "ret" after
    calls        \* SpecConc: the locals of every running count_tokens call

vars == <<text, result, ch, east_asian, cpc, calls>>

(***************************************************************************)
(* Bounds of the model.                                                    *)
(***************************************************************************)
MaxLen == 5        \* longest text of Spec
MaxParts == 3      \* most partitions a text is split into
NumCalls == 2      \* concurrent calls of SpecConc
MaxCallLen == 2    \* longest input of a concurrent call

\* Characters of Spec: 'a', U+4F60 and U+20000 (supplementary plane).
Chars == {\H61, \H4F60, \H20000}

\* Characters of SpecConc: 'a' and U+4F60.
CallChars == {\H61, \H4F60}

(***************************************************************************)
(* The code.                                                               *)
(***************************************************************************)

\* A char is a Unicode scalar value: a code point that is no surrogate.
IsScalar(n) == n \in 0 .. \H10FFFF /\ ~(n \in \HD800 .. \HDFFF)

\* One range lacks its last code point ('..' written for '..=').
is_east_asian_char_HalfOpen(c) ==
    \/ (\H4E00 <= c /\ c <= \H9FFF)
    \/ (\H3400 <= c /\ c <= \H4DBF)
    \/ (\H2E80 <= c /\ c <= \H2EFF)
    \/ (\H2F00 <= c /\ c <= \H2FDF)
    \/ (\H2FF0 <= c /\ c <= \H2FFF)
    \/ (\H20000 <= c /\ c <= \H2A6DF)
    \/ (\H2A700 <= c /\ c <= \H2B73F)
    \/ (\H2B740 <= c /\ c <= \H2B81F)
    \/ (\H2B820 <= c /\ c <= \H2CEAF)
    \/ (\H2CEB0 <= c /\ c <= \H2EBEF)
    \/ (\H2F800 <= c /\ c <= \H2FA1F)
    \/ (\H30000 <= c /\ c <= \H3134F)
    \/ (\H31350 <= c /\ c < \H323AF)
    \/ (\H3040 <= c /\ c <= \H309F)
    \/ (\H30A0 <= c /\ c <= \H30FF)
    \/ (\HAC00 <= c /\ c <= \HD7AF)
    \/ (\H1100 <= c /\ c <= \H11FF)
    \/ (\HFF00 <= c /\ c <= \HFFEF)
    \/ (\H3000 <= c /\ c <= \H303F)

\* matches!(c, lo ..= hi | ...): the alternatives in the order of the source.
is_east_asian_char(c) ==
    \/ (\H4E00 <= c /\ c <= \H9FFF)
    \/ (\H3400 <= c /\ c <= \H4DBF)
    \/ (\H2E80 <= c /\ c <= \H2EFF)
    \/ (\H2F00 <= c /\ c <= \H2FDF)
    \/ (\H2FF0 <= c /\ c <= \H2FFF)
    \/ (\H20000 <= c /\ c <= \H2A6DF)
    \/ (\H2A700 <= c /\ c <= \H2B73F)
    \/ (\H2B740 <= c /\ c <= \H2B81F)
    \/ (\H2B820 <= c /\ c <= \H2CEAF)
    \/ (\H2CEB0 <= c /\ c <= \H2EBEF)
    \/ (\H2F800 <= c /\ c <= \H2FA1F)
    \/ (\H30000 <= c /\ c <= \H3134F)
    \/ (\H31350 <= c /\ c <= \H323AF)
    \/ (\H3040 <= c /\ c <= \H309F)
    \/ (\H30A0 <= c /\ c <= \H30FF)
    \/ (\HAC00 <= c /\ c <= \HD7AF)
    \/ (\H1100 <= c /\ c <= \H11FF)
    \/ (\HFF00 <= c /\ c <= \HFFEF)
    \/ (\H3000 <= c /\ c <= \H303F)

\* The two weights exchanged.
unit_Swapped(c) == IF is_east_asian_char(c) THEN 2 ELSE 7

\* The weights left unscaled (3.5 truncated to 3, and 1).
unit_Unscaled(c) == IF is_east_asian_char(c) THEN 3 ELSE 1

\* The closure of the map: |c| if is_east_asian_char(c) { 7 } else { 2 }.
unit(c) == IF is_east_asian_char(c) THEN 7 ELSE 2

\* A character equal to its predecessor is skipped (a dedup of the input).
RECURSIVE char_units_Dedup(_)
char_units_Dedup(t) ==
    IF t = <<>> THEN 0
    ELSE LET n == Len(t)
             rest == char_units_Dedup(SubSeq(t, 1, n - 1))
         IN  IF n > 1 /\ t[n] = t[n - 1] THEN rest ELSE rest + unit(t[n])

\* text.chars().map(..).sum(): the left fold of the weights from 0.
RECURSIVE char_units(_)
char_units(t) ==
    IF t = <<>> THEN 0
    ELSE char_units(SubSeq(t, 1, Len(t) - 1)) + unit(t[Len(t)])

\* The rounding term is forgotten: truncation.
count_tokens_Trunc(t) == char_units(t) \div 6

\* The half is rounded down: + 2 for + 3.
count_tokens_HalfDown(t) == (char_units(t) + 2) \div 6

\* '%' written for '/'.
count_tokens_Rem(t) == (char_units(t) + 3) % 6

\* (char_units + 3) / 6 on unsigned integers.
count_tokens(t) == (char_units(t) + 3) \div 6

(***************************************************************************)
(* Spec: a caller appends characters and counts after every append.        *)
(***************************************************************************)
ClassifyIdle == ch = 0 /\ east_asian = FALSE /\ cpc = "idle"

Init ==
    /\ text = <<>>
    /\ result = count_tokens(text)
    /\ ClassifyIdle
    /\ calls = <<>>

AppendChar(c) ==
    /\ Len(text) < MaxLen
    /\ text' = Append(text, c)
    /\ result' = count_tokens(text')
    /\ UNCHANGED <<ch, east_asian, cpc, calls>>

Next == \E c \in Chars : AppendChar(c)

Spec == Init /\ [][Next]_vars

(***************************************************************************)
(* SpecClassify: the classifier on every scalar value.                     *)
(***************************************************************************)
InitClassify ==
    /\ \E plane \in 0 .. 16 : ch \in (plane * 65536) .. (plane * 65536 + 65535)
    /\ IsScalar(ch)
    /\ east_asian = FALSE
    /\ cpc = "call"
    /\ text = <<>>
    /\ result = 0
    /\ calls = <<>>

Classify ==
    /\ cpc = "call"
    /\ east_asian' = is_east_asian_char(ch)
    /\ cpc' = "ret"
    /\ UNCHANGED <<ch, text, result, calls>>

NextClassify == Classify

SpecClassify == InitClassify /\ [][NextClassify]_vars

(***************************************************************************)
(* SpecConc: interleaved calls.  Every call owns its locals: the borrowed  *)
(* input, the position of the chars() iterator, the accumulator of sum()   *)
(* and the returned value.  first keeps what the first run of a call       *)
(* returned, repeated tells that the caller has called again.              *)
(***************************************************************************)
CallIds == 1 .. NumCalls

CallInputs == UNION {[1 .. n -> CallChars] : n \in 0 .. MaxCallLen}

NewCall(in) ==
    [input |-> in, pos |-> 0, char_units |-> 0, pc |-> "iter",
     ret |-> 0, repeated |-> FALSE, first |-> 0]

InitConc ==
    /\ calls \in [CallIds -> {NewCall(in) : in \in CallInputs}]
    /\ text = <<>>
    /\ result = 0
    /\ ClassifyIdle

\* The accumulator is one variable shared by all calls (a static).
IterNext_SharedAcc(k) ==
    /\ calls[k].pc = "iter"
    /\ calls[k].pos < Len(calls[k].input)
    /\ LET w == unit(calls[k].input[calls[k].pos + 1])
       IN  calls' = [j \in CallIds |->
                IF j = k
                THEN [calls[j] EXCEPT !.pos = @ + 1, !.char_units = @ + w]
                ELSE [calls[j] EXCEPT !.char_units = @ + w]]
    /\ UNCHANGED <<text, result, ch, east_asian, cpc>>

\* One step of the iterator chain: the next char is mapped and added.
IterNext(k) ==
    /\ calls[k].pc = "iter"
    /\ calls[k].pos < Len(calls[k].input)
    /\ LET w == unit(calls[k].input[calls[k].pos + 1])
       IN  calls' = [calls EXCEPT ![k].pos = @ + 1, ![k].char_units = @ + w]
    /\ UNCHANGED <<text, result, ch, east_asian, cpc>>

\* The iterator is exhausted: the call returns (char_units + 3) / 6.
Return(k) ==
    /\ calls[k].pc = "iter"
    /\ calls[k].pos = Len(calls[k].input)
    /\ LET r == (calls[k].char_units + 3) \div 6
       IN  calls' = [calls EXCEPT ![k].pc = "done",
                                  ![k].ret = r,
                                  ![k].first = IF calls[k].repeated THEN @ ELSE r]
    /\ UNCHANGED <<text, result, ch, east_asian, cpc>>

\* The caller repeats the call on the same input: fresh locals.
CallAgain(k) ==
    /\ calls[k].pc = "done"
    /\ calls' = [calls EXCEPT ![k].pc = "iter", ![k].pos = 0,
                               ![k].char_units = 0, ![k].repeated = TRUE]
    /\ UNCHANGED <<text, result, ch, east_asian, cpc>>

NextConc ==
    \E k \in CallIds : IterNext(k) \/ Return(k) \/ CallAgain(k)

SpecConc == InitConc /\ [][NextConc]_vars

(***************************************************************************)
(* Properties.                                                             *)
(***************************************************************************)

\* The number of characters of t that are East Asian, and of the others.
EastAsianCount(t) == Cardinality({i \in DOMAIN t : is_east_asian_char(t[i])})
OtherCount(t) == Cardinality({i \in DOMAIN t : ~is_east_asian_char(t[i])})

\* Texts of the tests: a b c d e f, U+4F60, U+597D, U+4E16.
Ascii(n) == [i \in 1 .. n |-> \H60 + i]
Ni == \H4F60
Hao == \H597D
Shi == \H4E16

\* C1: count_tokens returns floor((7 * e + 2 * o + 3) / 6), e the number of
\* East Asian characters and o the number of the others, every scalar value
\* counted once; "ni hao a b c" gives 3, "a ni" gives 2, "ni hao shi" gives 4.
C1_ClosedForm ==
    /\ result = (7 * EastAsianCount(text) + 2 * OtherCount(text) + 3) \div 6
    /\ EastAsianCount(text) + OtherCount(text) = Len(text)
    /\ count_tokens(<<Ni, Hao>> \o Ascii(3)) = 3
    /\ count_tokens(<<\H61, Ni>>) = 2
    /\ count_tokens(<<Ni, Hao, Shi>>) = 4

C1_Witness ==
    /\ text = <<\H4F60, \H20000, \H61, \H61, \H61>>
    /\ result = 3

\* The 19 inclusive ranges of the specification's table.
EastAsianRanges ==
    { <<\H1100, \H11FF>>, <<\H2E80, \H2EFF>>, <<\H2F00, \H2FDF>>,
      <<\H2FF0, \H2FFF>>, <<\H3000, \H303F>>, <<\H3040, \H309F>>,
      <<\H30A0, \H30FF>>, <<\H3400, \H4DBF>>, <<\H4E00, \H9FFF>>,
      <<\HAC00, \HD7AF>>, <<\HFF00, \HFFEF>>, <<\H20000, \H2A6DF>>,
      <<\H2A700, \H2B73F>>, <<\H2B740, \H2B81F>>, <<\H2B820, \H2CEAF>>,
      <<\H2CEB0, \H2EBEF>>, <<\H2F800, \H2FA1F>>, <<\H30000, \H3134F>>,
      <<\H31350, \H323AF>> }

\* Gaps between ranges named by the claim.
GapRanges ==
    { <<\H2FE0, \H2FEF>>, <<\H3100, \H33FF>>, <<\H2A6E0, \H2A6FF>>,
      <<\H2EBF0, \H2F7FF>>, <<\H2FA20, \H2FFFF>> }

InSome(ranges, c) == \E r \in ranges : r[1] <= c /\ c <= r[2]

\* C2: is_east_asian_char(c) is true iff c lies in one of the 19 inclusive
\* ranges of the table: both endpoints of every range are classified true and
\* every code point of a gap between ranges is classified false.
C2_RangeTable ==
    /\ Cardinality(EastAsianRanges) = 19
    /\ cpc = "ret" =>
         /\ east_asian <=> InSome(EastAsianRanges, ch)
         /\ (\E r \in EastAsianRanges : ch = r[1] \/ ch = r[2]) => east_asian
         /\ InSome(GapRanges, ch) => ~east_asian

C2_Witness == cpc = "ret" /\ ch = \H323AF /\ east_asian

\* C3: (total + 3) / 6 is round-half-up of total / 6: the result r of a total t
\* satisfies 6r - 3 <= t <= 6r + 2, a remainder of t mod 6 in {0, 1, 2} rounds
\* down and one in {3, 4, 5} rounds up.
C3_RoundHalfUp ==
    LET t == char_units(text)
        r == result
    IN  /\ 6 * r - 3 <= t /\ t <= 6 * r + 2
        /\ t % 6 \in {0, 1, 2} => r = t \div 6
        /\ t % 6 \in {3, 4, 5} => r = (t \div 6) + 1

\* The exact half: a total of 9 (remainder 3) rounds up to 2.
C3_Witness == char_units(text) = 9 /\ result = 2

\* C4: appending a character never decreases the count: along the appends of
\* a caller the returned count never decreases.
C4_Monotonic == [][result' >= result]_vars

\* "a b" and "a b c" both count 1: an append that leaves the count unchanged.
C4_Witness ==
    /\ Len(text) = 3
    /\ result = count_tokens(SubSeq(text, 1, 2))
    /\ result = 1

\* C5: the result is >= 0; it is 0 iff the input is empty or its total is < 3,
\* that is a single character that is not East Asian; an input with an East
\* Asian character or with at least two characters yields >= 1.
C5_ZeroIff ==
    LET t == char_units(text)
        single == Len(text) = 1 /\ ~is_east_asian_char(text[1])
    IN  /\ result >= 0
        /\ result = 0 <=> (text = <<>> \/ t < 3)
        /\ (text # <<>> /\ t < 3) <=> single
        /\ (EastAsianCount(text) > 0 \/ Len(text) >= 2) => result >= 1

C5_Witness == text = <<\H61>> /\ result = 0

\* The text t with its characters taken in the order p.
Permuted(t, p) == [i \in DOMAIN t |-> t[p[i]]]

\* C6: the count of a text is the count of every permutation of it.
C6_OrderIndependent ==
    \A p \in Permutations(DOMAIN text) :
        count_tokens(Permuted(text, p)) = result

C6_Witness == text = <<\H61, \H4F60, \H61>> /\ result = 2

\* The splits of a text of length n into k consecutive partitions: the k - 1
\* split points, in order (equal split points give an empty partition).
Splits(n, k) ==
    {q \in [1 .. k - 1 -> 0 .. n] : \A i \in 1 .. k - 2 : q[i] <= q[i + 1]}

\* Partition i of t under the split q into k partitions.
Part(t, q, k, i) ==
    LET from == IF i = 1 THEN 0 ELSE q[i - 1]
        to == IF i = k THEN Len(t) ELSE q[i]
    IN  SubSeq(t, from + 1, to)

\* The totals of the partitions added in the order p.
RECURSIVE SumParts(_, _, _, _, _)
SumParts(t, q, k, p, n) ==
    IF n = 0 THEN 0
    ELSE SumParts(t, q, k, p, n - 1) + char_units(Part(t, q, k, p[n]))

\* C7: for every split of a text into consecutive partitions, taken in any
\* order, the sum of the partitions' totals rounded once by (sum + 3) / 6 is
\* the count of the text.
C7_Partitioned ==
    \A k \in 1 .. MaxParts :
        \A q \in Splits(Len(text), k) :
            \A p \in Permutations(1 .. k) :
                (SumParts(text, q, k, p, k) + 3) \div 6 = result

\* "a" + "a": the parts alone round to 0 each, the whole is 1.
C7_Witness ==
    /\ text = <<\H61, \H61>>
    /\ result = 1
    /\ count_tokens(Part(text, <<1>>, 2, 1)) = 0

\* C8: with the steps of the calls interleaved, every call returns what
\* count_tokens returns on its input alone, a repeated call returns what the
\* first run returned, and a step changes the locals of one call only.
C8_Reentrant ==
    /\ [](\A k \in CallIds :
            calls[k].pc = "done" =>
                /\ calls[k].ret = count_tokens(calls[k].input)
                /\ calls[k].ret = calls[k].first)
    /\ [][\A j, k \in CallIds :
            (calls'[j] # calls[j] /\ calls'[k] # calls[k]) => j = k]_vars

\* Two calls on different inputs are both in the middle of their iteration,
\* the first of them in its second run.
C8_Witness ==
    /\ calls[1].pc = "iter" /\ calls[1].pos = 1 /\ calls[1].repeated
    /\ calls[1].input = <<\H4F60, \H61>>
    /\ calls[2].pc = "iter" /\ calls[2].pos = 1
    /\ calls[2].input = <<\H61, \H61>>

\* C9: appending an East Asian character raises the count by 1 or 2, any
\* other character by 0 or 1; each of the four increments occurs.
C9_Increments ==
    /\ text # <<>> =>
         LET n == Len(text)
             d == result - count_tokens(SubSeq(text, 1, n - 1))
         IN  IF is_east_asian_char(text[n]) THEN d \in {1, 2} ELSE d \in {0, 1}
    /\ count_tokens(<<Ni>>) - count_tokens(<<>>) = 1
    /\ count_tokens(<<Ni, Hao, Shi>>) - count_tokens(<<Ni, Hao>>) = 2
    /\ count_tokens(Ascii(1)) - count_tokens(<<>>) = 0
    /\ count_tokens(Ascii(2)) - count_tokens(Ascii(1)) = 1

C9_Witness ==
    /\ text = <<\H4F60, \H20000, \H4F60>>
    /\ result = 4
    /\ count_tokens(SubSeq(text, 1, 2)) = 2

\* C10: count_tokens(a ++ b) - (count_tokens(a) + count_tokens(b)) is -1, 0
\* or +1, and each value occurs: "a" + "a" gives +1, "ni" + "ni" gives 0,
\* "ab" + "ab" gives -1.
C10_NearAdditive ==
    /\ \A n \in 0 .. Len(text) :
         LET a == SubSeq(text, 1, n)
             b == SubSeq(text, n + 1, Len(text))
         IN  result - (count_tokens(a) + count_tokens(b)) \in {-1, 0, 1}
    /\ count_tokens(Ascii(1) \o Ascii(1)) - 2 * count_tokens(Ascii(1)) = 1
    /\ count_tokens(<<Ni, Ni>>) - 2 * count_tokens(<<Ni>>) = 0
    /\ count_tokens(Ascii(2) \o Ascii(2)) - 2 * count_tokens(Ascii(2)) = -1

C10_Witness ==
    /\ text = <<\H61, \H61, \H61, \H61>>
    /\ result = 1
    /\ count_tokens(SubSeq(text, 1, 2)) = 1

====
